---------------------------- MODULE Spec2Model ----------------------------
(***************************************************************************)
(* Model of SU2_CFD/include/numerics/turbulent/turb_sources_new.hpp:       *)
(* the Spalart-Allmaras source-term evaluator CSourceBase_TurbSA and the   *)
(* strategy structs it is assembled from (the Omega, ft2, ModVort, r and   *)
(* SourceTerms families).                                                  *)
(*                                                                         *)
(* su2double is modelled as a decimal floating-point number with Digits    *)
(* significant digits, round-to-nearest-even, infinities and NaN, so that  *)
(* the thresholds of the code (1e-10, 1e-16, 10.0) are exact values with   *)
(* representable neighbours on both sides.                                 *)
(***************************************************************************)
EXTENDS Integers, Sequences, FiniteSets, TLC

\* Significant decimal digits kept by the model's su2double.
Digits == 3

\* Number of candidate contents of the uninitialised memory that the local
\* CommonVariables record (and the evaluator's unset members) may hold.
NumStack == 2

----------------------------------------------------------------------------
(* su2double arithmetic                                                    *)

\* The powers of ten a 32-bit integer holds.
Pow10(k) ==
  IF k <= 0 THEN 1
  ELSE <<10, 100, 1000, 10000, 100000, 1000000, 10000000, 100000000,
         1000000000>>[k]

\* The number of decimal digits of n >= 0.
NDigits(n) ==
  IF n >= 1000000000 THEN 10
  ELSE CHOOSE k \in 1..9 : (k = 1 \/ Pow10(k - 1) <= n) /\ n < Pow10(k)

Abs(n) == IF n < 0 THEN -n ELSE n

Sgn(n) == IF n < 0 THEN -1 ELSE IF n > 0 THEN 1 ELSE 0

\* c = 0: finite value m * 10^e (m = 0 or Digits digits long);
\* c = 1: infinity of sign m;  c = 2: NaN.
Zero == [c |-> 0, m |-> 0, e |-> 0]

NaN == [c |-> 2, m |-> 0, e |-> 0]

Inf(s) == [c |-> 1, m |-> s, e |-> 0]

IsNaN(a) == a.c = 2

IsInf(a) == a.c = 1

IsFin(a) == a.c = 0

IsZero(a) == a.c = 0 /\ a.m = 0

\* A finite value from a mantissa of at most Digits digits; the exponent
\* range is that of an IEEE double.
Pack(m, e) ==
  IF e + Digits - 1 > 308 THEN Inf(Sgn(m))
  ELSE IF e + Digits - 1 < -324 THEN Zero
  ELSE [c |-> 0, m |-> m, e |-> e]

\* Rounding carried into the next power of ten.
NormCarry(sg, q1, e) ==
  IF q1 = Pow10(Digits) THEN Pack(sg * Pow10(Digits - 1), e + 1)
  ELSE Pack(sg * q1, e)

\* Round-to-nearest, ties to even, of quotient q with remainder r (half h).
NormRound(sg, q, r, h, e) ==
  NormCarry(sg, IF r > h \/ (r = h /\ q % 2 = 1) THEN q + 1 ELSE q, e)

\* k is the number of digits of n beyond Digits.
NormDigits(n, e, k) ==
  IF k <= 0 THEN Pack(n * Pow10(-k), e + k)
  ELSE NormRound(Sgn(n), Abs(n) \div Pow10(k), Abs(n) % Pow10(k),
                 5 * Pow10(k - 1), e + k)

\* The double nearest to n * 10^e.
Norm(n, e) ==
  IF n = 0 THEN Zero ELSE NormDigits(n, e, NDigits(Abs(n)) - Digits)

\* The literal m * 10^e.
Fl(m, e) == Norm(m, e)

One == Fl(1, 0)

Two == Fl(2, 0)

Neg(a) == IF IsNaN(a) THEN NaN ELSE [a EXCEPT !.m = -a.m]

SgnF(a) == Sgn(a.m)

AddFin(a, b) ==
  IF a.m = 0 THEN b
  ELSE IF b.m = 0 THEN a
  ELSE LET hi == IF a.e >= b.e THEN a ELSE b
           lo == IF a.e >= b.e THEN b ELSE a
           df == hi.e - lo.e
       IN  IF df > Digits + 1 THEN hi
           ELSE Norm(hi.m * Pow10(df) + lo.m, lo.e)

Add(a, b) ==
  IF IsNaN(a) \/ IsNaN(b) THEN NaN
  ELSE IF IsInf(a) /\ IsInf(b) THEN (IF a.m = b.m THEN a ELSE NaN)
  ELSE IF IsInf(a) THEN a
  ELSE IF IsInf(b) THEN b
  ELSE AddFin(a, b)

Sub(a, b) == Add(a, Neg(b))

Mul(a, b) ==
  IF IsNaN(a) \/ IsNaN(b) THEN NaN
  ELSE IF IsInf(a) \/ IsInf(b)
       THEN (IF IsZero(a) \/ IsZero(b) THEN NaN ELSE Inf(SgnF(a) * SgnF(b)))
  ELSE Norm(a.m * b.m, a.e + b.e)

Div(a, b) ==
  IF IsNaN(a) \/ IsNaN(b) THEN NaN
  ELSE IF IsInf(a) THEN (IF IsInf(b) THEN NaN
                         ELSE Inf(a.m * (IF b.m < 0 THEN -1 ELSE 1)))
  ELSE IF IsInf(b) THEN Zero
  ELSE IF b.m = 0 THEN (IF a.m = 0 THEN NaN ELSE Inf(Sgn(a.m)))
  ELSE IF a.m = 0 THEN Zero
  ELSE LET n == Abs(a.m) * Pow10(Digits + 1)
           q == n \div Abs(b.m)
           s == IF n % Abs(b.m) = 0 THEN 0 ELSE 1
       IN  Norm(Sgn(a.m) * Sgn(b.m) * (q * 10 + s), a.e - b.e - Digits - 2)

LtFin(a, b) ==
  IF a.m = 0 THEN b.m > 0
  ELSE IF b.m = 0 THEN a.m < 0
  ELSE IF a.m < 0 /\ b.m > 0 THEN TRUE
  ELSE IF a.m > 0 /\ b.m < 0 THEN FALSE
  ELSE IF a.m > 0 THEN a.e < b.e \/ (a.e = b.e /\ a.m < b.m)
  ELSE a.e > b.e \/ (a.e = b.e /\ a.m < b.m)

\* a < b, a <= b, a == b, a > b of C++ doubles: every comparison with a NaN
\* is false.
Lt(a, b) ==
  IF IsNaN(a) \/ IsNaN(b) THEN FALSE
  ELSE IF IsInf(a) THEN a.m < 0 /\ ~(IsInf(b) /\ b.m < 0)
  ELSE IF IsInf(b) THEN b.m > 0
  ELSE LtFin(a, b)

EqF(a, b) == ~IsNaN(a) /\ ~IsNaN(b) /\ a = b

Le(a, b) == Lt(a, b) \/ EqF(a, b)

Gt(a, b) == Lt(b, a)

\* std::min and std::max: the first argument unless the comparison holds.
min(a, b) == IF Lt(b, a) THEN b ELSE a

max(a, b) == IF Lt(a, b) THEN b ELSE a

AbsF(a) == IF IsNaN(a) THEN NaN ELSE [a EXCEPT !.m = Abs(a.m)]

\* One base-32 digit of the integer square root: the largest r + w * d,
\* d in 0..31, whose square is at most n.
ISqrtStep(n, r, w) ==
  r + w * (CHOOSE d \in 0..31 :
             /\ (r + w * d) * (r + w * d) <= n
             /\ (d = 31 \/ (r + w * (d + 1)) * (r + w * (d + 1)) > n))

\* The integer square root of 0 <= n < 2^30.
ISqrt(n) == ISqrtStep(n, ISqrtStep(n, ISqrtStep(n, 0, 1024), 32), 1)

\* One decimal digit of the integer cube root.
ICbrtStep(n, r, w) ==
  r + w * (CHOOSE d \in 0..9 :
             /\ (r + w * d) * (r + w * d) * (r + w * d) <= n
             /\ (d = 9 \/ (r + w * (d + 1)) * (r + w * (d + 1))
                             * (r + w * (d + 1)) > n))

\* The integer cube root of 0 <= n < 10^9.
ICbrt(n) == ICbrtStep(n, ICbrtStep(n, ICbrtStep(n, 0, 100), 10), 1)

SqrtRoot(n, r, e) == Norm(r * 10 + (IF r * r = n THEN 0 ELSE 1), e)

SqrtScaled(n, e) == SqrtRoot(n, ISqrt(n), e)

SqrtShift(a, j) == SqrtScaled(a.m * Pow10(j), ((a.e - j) \div 2) - 1)

\* sqrt of <cmath>: NaN for a negative argument.
sqrt(a) ==
  IF IsNaN(a) THEN NaN
  ELSE IF IsInf(a) THEN (IF a.m > 0 THEN a ELSE NaN)
  ELSE IF a.m = 0 THEN Zero
  ELSE IF a.m < 0 THEN NaN
  ELSE SqrtShift(a, IF (a.e - Digits) % 2 = 0 THEN Digits ELSE Digits + 1)

CbrtRoot(n, r, e) == Norm(r * 10 + (IF r * r * r = n THEN 0 ELSE 1), e)

CbrtScaled(n, e) == CbrtRoot(n, ICbrt(n), e)

CbrtShift(a, j) == CbrtScaled(a.m * Pow10(j), ((a.e - j) \div 3) - 1)

\* The cube root of a positive finite value (to the digits an integer cube
\* root of the scaled mantissa gives).
cbrt(a) == CbrtShift(a, (7 - Digits) + ((a.e - (7 - Digits)) % 3))

\* pow(x, 2.0), pow(x, 5.0), pow(x, 6.0), pow(x, -2.0), pow(x, 1.0 / 6.0)
pow2(a) == Mul(a, a)

pow4of2(a2) == Mul(a2, a2)

pow6of2(a2) == Mul(pow4of2(a2), a2)

pow5(a) == Mul(pow4of2(pow2(a)), a)

pow6(a) == pow6of2(pow2(a))

powm2(a) == Div(One, pow2(a))

powSixth(a) ==
  IF IsNaN(a) THEN NaN
  ELSE IF IsInf(a) THEN (IF a.m > 0 THEN a ELSE NaN)
  ELSE IF a.m = 0 THEN Zero
  ELSE IF a.m < 0 THEN NaN
  ELSE sqrt(cbrt(a))

\* exp of <cmath>, computed in fixed point with four decimals:
\* exp(x) = 10^k * 2^j * exp(t) with x = k * ln 10 + j * ln 2 + t,
\* 0 <= t < ln 2, and exp(t) by its Taylor polynomial in Horner form.
FixedPoint(x) ==
  IF x.e >= -4 THEN x.m * Pow10(x.e + 4)
  ELSE IF x.e < -13 THEN 0
  ELSE x.m \div Pow10(-4 - x.e)

ExpReduced(t) ==
  10000 + (t * (10000 + (t * (10000 + (t * (10000 + (t * (10000 + (t *
  (10000 + (t * (10000 + t \div 7)) \div 60000)) \div 50000)) \div
  40000)) \div 30000)) \div 20000)) \div 10000

ExpTimesPow2(r) == ExpReduced(r % 6931) * <<1, 2, 4, 8>>[(r \div 6931) + 1]

ExpFixed(x4) == Norm(ExpTimesPow2(x4 % 23026), (x4 \div 23026) - 4)

ExpFin(x) == ExpFixed(FixedPoint(x))

exp(x) ==
  IF IsNaN(x) THEN NaN
  ELSE IF IsInf(x) THEN (IF x.m > 0 THEN x ELSE Zero)
  ELSE IF Gt(x, Fl(710, 0)) THEN Inf(1)
  ELSE IF Lt(x, Fl(-746, 0)) THEN Zero
  ELSE ExpFin(x)

TanhOfExp(e2) == Div(Sub(e2, One), Add(e2, One))

\* tanh of <cmath>
tanh(x) ==
  IF IsNaN(x) THEN NaN
  ELSE IF IsInf(x) THEN Fl(x.m, 0)
  ELSE IF Gt(AbsF(x), Fl(20, 0)) THEN Fl(SgnF(x), 0)
  ELSE TanhOfExp(exp(Mul(Two, x)))

----------------------------------------------------------------------------
(* Evaluator configuration and inputs                                      *)

\* The template arguments of CSourceBase_TurbSA: one struct per family,
\* bound when the evaluator type is instantiated.
Strategies ==
  {[Omega_class |-> o, ft2_class |-> f, ModVort_class |-> m, r_class |-> r,
    SourceTerms_class |-> t] :
   o \in {"Omega_Bsl", "Omega_Edw"},
   f \in {"ft2_Bsl", "ft2_nonzero"},
   m \in {"ModVort_Bsl", "ModVort_Edw", "ModVort_Neg"},
   r \in {"r_Bsl", "r_Edw"},
   t \in {"SourceTerms_Bsl", "SourceTerms_Neg"}}

\* const bool rotating_frame = false;
rotating_frame == FALSE

\* EPS of CNumerics, added to the wall distance in the roughness term.
EPS == Fl(1, -16)

\* The members of struct CommonVariables.
Constants ==
  {"cv1_3", "k2", "cb1", "cw2", "ct3", "ct4", "cw3_6", "cb2_sigma", "sigma",
   "cb2", "cw1", "cr1"}

Auxiliaries ==
  {"ft2", "d_ft2", "r", "d_r", "g", "d_g", "glim", "fw", "d_fw", "Ji", "d_Ji",
   "S", "Shat", "d_Shat", "fv1", "d_fv1", "fv2", "d_fv2"}

Helpers == {"Omega", "dist_i_2", "inv_k2_d2", "inv_Shat", "g_6", "norm2_Grad"}

Fields == Constants \cup Auxiliaries \cup Helpers

\* `CommonVariables model_var;' is default-initialised: no member has an
\* initialiser and no constructor exists, so every member starts with
\* whatever the stack holds.  StackImage(i) is the i-th candidate content:
\* image 1 happens to hold the Spalart-Allmaras calibration in the constants,
\* image i holds i times those values; the other members hold 3 * i.
\* (dfw is the name line 202 assigns; the struct declares d_fw.)
StackImage(i) ==
  LET k == Fl(i, 0)
  IN  [cv1_3 |-> Mul(k, Fl(358, 0)), k2 |-> Mul(k, Fl(168, -3)),
       cb1 |-> Mul(k, Fl(136, -3)), cw2 |-> Mul(k, Fl(3, -1)),
       ct3 |-> Mul(k, Fl(12, -1)), ct4 |-> Mul(k, Fl(5, -1)),
       cw3_6 |-> Mul(k, Fl(64, 0)), cb2_sigma |-> Mul(k, Fl(933, -3)),
       sigma |-> Mul(k, Fl(667, -3)), cb2 |-> Mul(k, Fl(622, -3)),
       cw1 |-> Mul(k, Fl(324, -2)), cr1 |-> Mul(k, Fl(5, -1)),
       ft2 |-> Mul(k, Fl(3, 0)), d_ft2 |-> Mul(k, Fl(3, 0)),
       r |-> Mul(k, Fl(3, 0)), d_r |-> Mul(k, Fl(3, 0)),
       g |-> Mul(k, Fl(3, 0)), d_g |-> Mul(k, Fl(3, 0)),
       glim |-> Mul(k, Fl(3, 0)), fw |-> Mul(k, Fl(3, 0)),
       d_fw |-> Mul(k, Fl(3, 0)), dfw |-> Mul(k, Fl(3, 0)),
       Ji |-> Mul(k, Fl(3, 0)), d_Ji |-> Mul(k, Fl(3, 0)),
       S |-> Mul(k, Fl(3, 0)), Shat |-> Mul(k, Fl(3, 0)),
       d_Shat |-> Mul(k, Fl(3, 0)), fv1 |-> Mul(k, Fl(3, 0)),
       d_fv1 |-> Mul(k, Fl(3, 0)), fv2 |-> Mul(k, Fl(3, 0)),
       d_fv2 |-> Mul(k, Fl(3, 0)), Omega |-> Mul(k, Fl(3, 0)),
       dist_i_2 |-> Mul(k, Fl(3, 0)), inv_k2_d2 |-> Mul(k, Fl(3, 0)),
       inv_Shat |-> Mul(k, Fl(3, 0)), g_6 |-> Mul(k, Fl(3, 0)),
       norm2_Grad |-> Mul(k, Fl(3, 0))]

\* The point state: the CNumerics members ComputeResidual reads.
\* ScalarVar_i is ScalarVar_i[0], ScalarVar_Grad_i is ScalarVar_Grad_i[0],
\* PrimVar_Grad_i holds the rows idx.Velocity() .. idx.Velocity() + nDim - 1.
Flows ==
  {[Vorticity_i |-> <<Zero, Zero, Fl(1, -10)>>,
    PrimVar_Grad_i |-> <<<<Zero, Fl(1, -10)>>, <<Zero, Zero>>>>,
    StrainMag_i |-> Fl(1, -10)],
   [Vorticity_i |-> <<Zero, Zero, Fl(5, 0)>>,
    PrimVar_Grad_i |-> <<<<One, Fl(5, 0)>>, <<Zero, Fl(-1, 0)>>>>,
    StrainMag_i |-> Fl(5, 0)]}

Nues == {Fl(-1, 0), Zero, One, Fl(100, 0)}

PointAt(d, v, n, f) ==
  [dist_i |-> d, Volume |-> v, ScalarVar_i |-> n,
   ScalarVar_Grad_i |-> <<One, Two>>,
   Vorticity_i |-> f.Vorticity_i, PrimVar_Grad_i |-> f.PrimVar_Grad_i,
   StrainMag_i |-> f.StrainMag_i, roughness_i |-> Zero,
   V_Density |-> One, V_LaminarViscosity |-> One]

\* Points away from the wall, and points at the largest wall distance the
\* test of line 158 rejects.
InteriorPoints ==
  {PointAt(One, v, n, f) : v \in {One, Two}, n \in Nues, f \in Flows}

WallPoints == {PointAt(Fl(1, -10), Two, n, f) : n \in Nues, f \in Flows}

Points == InteriorPoints \cup WallPoints

nDim(p) == Len(p.ScalarVar_Grad_i)



----------------------------------------------------------------------------
(* Strain rate                                                             *)
(* Every struct's get is a function of model_var (mv) to model_var, one    *)
(* operator per assignment statement, composed in statement order.         *)

\* Omega_Bsl::get
Omega_Bsl(p, mv) ==
  [mv EXCEPT !.Omega =
     sqrt(Add(Add(Mul(p.Vorticity_i[1], p.Vorticity_i[1]),
                  Mul(p.Vorticity_i[2], p.Vorticity_i[2])),
              Mul(p.Vorticity_i[3], p.Vorticity_i[3])))]

\* The double loop of Omega_Edw::get; k counts the (iDim, jDim) pairs done.
RECURSIVE Omega_Edw_Sum(_, _, _, _)
Omega_Edw_Sum(G, n, k, Sbar) ==
  IF k >= n * n THEN Sbar
  ELSE Omega_Edw_Sum(G, n, k + 1,
         Add(Sbar, Mul(Add(G[(k \div n) + 1][(k % n) + 1],
                           G[(k % n) + 1][(k \div n) + 1]),
                       G[(k \div n) + 1][(k % n) + 1])))

\* The second loop of Omega_Edw::get.
RECURSIVE Omega_Edw_Trace(_, _, _, _)
Omega_Edw_Trace(G, n, k, Sbar) ==
  IF k >= n THEN Sbar
  ELSE Omega_Edw_Trace(G, n, k + 1,
         Sub(Sbar, Mul(Div(Two, Fl(3, 0)), pow2(G[k + 1][k + 1]))))

\* Omega_Edw::get
Omega_Edw(p, mv) ==
  [mv EXCEPT !.Omega =
     sqrt(max(Omega_Edw_Trace(p.PrimVar_Grad_i, nDim(p), 0,
                Omega_Edw_Sum(p.PrimVar_Grad_i, nDim(p), 0, Zero)), Zero))]

----------------------------------------------------------------------------
(* ft2-term and its derivative                                             *)

\* ft2_Bsl::get
ft2_Bsl(mv) == [mv EXCEPT !.ft2 = Zero, !.d_ft2 = Zero]

\* ft2_nonzero::get, line 306 (xsi2 is pow(Ji, 2))
ft2_nonzero_ft2(mv) ==
  [mv EXCEPT !.ft2 = Mul(mv.ct3, exp(Mul(Neg(mv.ct4), pow2(mv.Ji))))]

\* ft2_nonzero::get, line 307
ft2_nonzero_dft2(mv) ==
  [mv EXCEPT !.d_ft2 =
     Mul(Mul(Mul(Mul(Fl(-2, 0), mv.ct4), mv.Ji), mv.ft2), mv.d_Ji)]

\* ft2_nonzero::get
ft2_nonzero(mv) == ft2_nonzero_dft2(ft2_nonzero_ft2(mv))

----------------------------------------------------------------------------
(* Modified vorticity and its derivative                                   *)

\* ModVort_Bsl::get, line 326: the local Sbar
ModVort_Bsl_Sbar(nue, mv) == Mul(Mul(nue, mv.fv2), mv.inv_k2_d2)

\* ModVort_Bsl::get, lines 328-329: Shat and its floor
ModVort_Bsl_Shat(nue, mv) ==
  [mv EXCEPT !.Shat = max(Add(mv.S, ModVort_Bsl_Sbar(nue, mv)), Fl(1, -10))]

\* ModVort_Bsl::get, line 331: the local d_Sbar
ModVort_Bsl_dSbar(nue, mv) ==
  Mul(Add(mv.fv2, Mul(nue, mv.d_fv2)), mv.inv_k2_d2)

\* A d_Shat that is zero only strictly below the floor.
ModVort_Bsl_dShat_StrictFloor(nue, mv) ==
  [mv EXCEPT !.d_Shat =
     IF Lt(mv.Shat, Fl(1, -10)) THEN Zero ELSE ModVort_Bsl_dSbar(nue, mv)]

\* ModVort_Bsl::get, line 333: d_Shat
ModVort_Bsl_dShat(nue, mv) ==
  [mv EXCEPT !.d_Shat =
     IF Le(mv.Shat, Fl(1, -10)) THEN Zero ELSE ModVort_Bsl_dSbar(nue, mv)]

\* ModVort_Bsl::get
ModVort_Bsl(p, mv) ==
  ModVort_Bsl_dShat(p.ScalarVar_i, ModVort_Bsl_Shat(p.ScalarVar_i, mv))

\* ModVort_Edw::get, lines 346-347
ModVort_Edw_Shat(mv) ==
  [mv EXCEPT !.Shat =
     max(max(Mul(mv.S, Add(Div(One, max(mv.Ji, Fl(1, -16))), mv.fv1)),
             Fl(1, -16)),
         Fl(1, -10))]

\* ModVort_Edw::get, line 349 (nu is the local of ComputeResidual)
ModVort_Edw_dShat(mv, nu) ==
  [mv EXCEPT !.d_Shat =
     IF Le(mv.Shat, Fl(1, -10)) THEN Zero
     ELSE Add(Div(Mul(Neg(mv.S), powm2(mv.Ji)), nu), Mul(mv.S, mv.d_fv1))]

\* ModVort_Edw::get
ModVort_Edw(p, mv, nu) == ModVort_Edw_dShat(ModVort_Edw_Shat(mv), nu)

\* A ModVort_Neg whose test differs from that of SourceTerms_Neg.
ModVort_Neg_OtherTest(p, mv) ==
  IF Gt(p.ScalarVar_i, One) THEN ModVort_Bsl(p, mv) ELSE mv

\* ModVort_Neg::get
ModVort_Neg(p, mv) ==
  IF Gt(p.ScalarVar_i, Zero) THEN ModVort_Bsl(p, mv) ELSE mv

----------------------------------------------------------------------------
(* Auxiliary function r and its derivative                                 *)

\* line 391 (and 408): r = min(nue * inv_Shat * inv_k2_d2, 10.0)
r_Clamped(nue, mv) ==
  [mv EXCEPT !.r = min(Mul(Mul(nue, mv.inv_Shat), mv.inv_k2_d2), Fl(10, 0))]

\* line 392 (and 411): d_r
r_Derivative(nue, mv) ==
  [mv EXCEPT !.d_r =
     Mul(Mul(Mul(Sub(mv.Shat, Mul(nue, mv.d_Shat)), mv.inv_Shat),
             mv.inv_Shat), mv.inv_k2_d2)]

\* An r_Bsl that keeps d_r at the clamp.
r_Bsl_KeepAtClamp(mv) == mv

\* line 393: if (r == 10.0) d_r = 0.0
r_Bsl_ZeroAtClamp(mv) ==
  IF EqF(mv.r, Fl(10, 0)) THEN [mv EXCEPT !.d_r = Zero] ELSE mv

\* r_Bsl::get
r_Bsl(p, mv) ==
  r_Bsl_ZeroAtClamp(r_Derivative(p.ScalarVar_i, r_Clamped(p.ScalarVar_i, mv)))

\* line 409: r = tanh(r) / tanh(1.0)
r_Edw_Transform(mv) == [mv EXCEPT !.r = Div(tanh(mv.r), tanh(One))]

\* line 412: d_r = (1 - pow(tanh(r), 2.0)) * d_r / tanh(1.0)
r_Edw_TransformDerivative(mv) ==
  [mv EXCEPT !.d_r =
     Div(Mul(Sub(One, pow2(tanh(mv.r))), mv.d_r), tanh(One))]

\* An r_Edw that forces d_r to zero at the clamp, as r_Bsl does.
r_Edw_ZeroAtClamp(p, mv) ==
  r_Edw_TransformDerivative(
    r_Edw_Transform(
      r_Bsl_ZeroAtClamp(
        r_Derivative(p.ScalarVar_i, r_Clamped(p.ScalarVar_i, mv)))))

\* r_Edw::get
r_Edw(p, mv) ==
  r_Edw_TransformDerivative(
    r_Derivative(p.ScalarVar_i,
      r_Edw_Transform(r_Clamped(p.ScalarVar_i, mv))))

----------------------------------------------------------------------------
(* Source terms: production, destruction, cross production, derivatives    *)
(* out is the record of the four cells the struct writes through its       *)
(* pointer arguments: Production, Destruction, CrossProduction, Jacobian.  *)
(* out.hist logs the value of *Jacobian at the end of each Compute call.   *)

LogJacobian(out) == [out EXCEPT !.hist = Append(out.hist, out.Jacobian)]

\* SourceTerms_Bsl::ComputeProduction
Bsl_ComputeProduction(nue, mv, out) ==
  LogJacobian(
    [out EXCEPT
       !.Production = Mul(Mul(Mul(mv.cb1, Sub(One, mv.ft2)), mv.Shat), nue),
       !.Jacobian = Add(out.Jacobian, Mul(mv.cb1,
          Add(Mul(Mul(Neg(mv.Shat), nue), mv.d_ft2),
              Mul(Sub(One, mv.ft2), Add(Mul(nue, mv.d_Shat), mv.Shat)))))])

\* SourceTerms_Bsl::ComputeDestruction
Bsl_ComputeDestruction(nue, mv, out) ==
  LogJacobian(
    [out EXCEPT
       !.Destruction =
          Div(Mul(Mul(Sub(Mul(mv.cw1, mv.fw),
                          Div(Mul(mv.cb1, mv.ft2), mv.k2)), nue), nue),
              mv.dist_i_2),
       !.Jacobian = Sub(out.Jacobian,
          Add(Div(Mul(Mul(Sub(Mul(mv.cw1, mv.d_fw),
                              Mul(Div(mv.cb1, mv.k2), mv.d_ft2)), nue), nue),
                  mv.dist_i_2),
              Div(Mul(Mul(Sub(Mul(mv.cw1, mv.fw),
                              Div(Mul(mv.cb1, mv.ft2), mv.k2)), Two), nue),
                  mv.dist_i_2)))])

\* A cross production that also contributes to the Jacobian.
Bsl_ComputeCrossProduction_WithJacobian(nue, mv, out) ==
  LogJacobian(
    [out EXCEPT !.CrossProduction = Mul(mv.cb2_sigma, mv.norm2_Grad),
                !.Jacobian = Add(out.Jacobian, mv.cb2_sigma)])

\* SourceTerms_Bsl::ComputeCrossProduction
Bsl_ComputeCrossProduction(nue, mv, out) ==
  LogJacobian([out EXCEPT !.CrossProduction = Mul(mv.cb2_sigma, mv.norm2_Grad)])

\* SourceTerms_Bsl::get
SourceTerms_Bsl(p, mv, out) ==
  Bsl_ComputeCrossProduction(p.ScalarVar_i, mv,
    Bsl_ComputeDestruction(p.ScalarVar_i, mv,
      Bsl_ComputeProduction(p.ScalarVar_i, mv, out)))

\* A negative-branch production built on Shat, as the baseline one.
Neg_ComputeProduction_WithShat(nue, mv, out) ==
  LogJacobian(
    [out EXCEPT
       !.Production = Mul(Mul(Mul(mv.cb1, Sub(One, mv.ct3)), mv.Shat), nue),
       !.Jacobian = Add(out.Jacobian, Mul(Mul(mv.cb1, Sub(One, mv.ct3)), mv.Shat))])

\* SourceTerms_Neg::ComputeProduction
Neg_ComputeProduction(nue, mv, out) ==
  LogJacobian(
    [out EXCEPT
       !.Production = Mul(Mul(Mul(mv.cb1, Sub(One, mv.ct3)), mv.S), nue),
       !.Jacobian = Add(out.Jacobian, Mul(Mul(mv.cb1, Sub(One, mv.ct3)), mv.S))])

\* SourceTerms_Neg::ComputeDestruction
Neg_ComputeDestruction(nue, mv, out) ==
  LogJacobian(
    [out EXCEPT
       !.Destruction = Div(Mul(Mul(mv.cw1, nue), nue), mv.dist_i_2),
       !.Jacobian = Sub(out.Jacobian, Div(Mul(Mul(Two, mv.cw1), nue), mv.dist_i_2))])

\* SourceTerms_Neg::ComputeCrossProduction
Neg_ComputeCrossProduction(nue, mv, out) ==
  Bsl_ComputeCrossProduction(nue, mv, out)

\* SourceTerms_Neg::get
SourceTerms_Neg(p, mv, out) ==
  IF Gt(p.ScalarVar_i, Zero) THEN SourceTerms_Bsl(p, mv, out)
  ELSE Neg_ComputeCrossProduction(p.ScalarVar_i, mv,
         Neg_ComputeDestruction(p.ScalarVar_i, mv,
           Neg_ComputeProduction(p.ScalarVar_i, mv, out)))

----------------------------------------------------------------------------
(* CSourceBase_TurbSA::ComputeResidual                                     *)

ApplyOmega(s, p, mv) ==
  IF s.Omega_class = "Omega_Bsl" THEN Omega_Bsl(p, mv) ELSE Omega_Edw(p, mv)

Applyft2(s, mv) ==
  IF s.ft2_class = "ft2_Bsl" THEN ft2_Bsl(mv) ELSE ft2_nonzero(mv)

ApplyModVort(s, p, mv, nu) ==
  IF s.ModVort_class = "ModVort_Bsl" THEN ModVort_Bsl(p, mv)
  ELSE IF s.ModVort_class = "ModVort_Edw" THEN ModVort_Edw(p, mv, nu)
  ELSE ModVort_Neg(p, mv)

Applyr(s, p, mv) ==
  IF s.r_class = "r_Bsl" THEN r_Bsl(p, mv) ELSE r_Edw(p, mv)

ApplySourceTerms(s, p, mv, out) ==
  IF s.SourceTerms_class = "SourceTerms_Bsl" THEN SourceTerms_Bsl(p, mv, out)
  ELSE SourceTerms_Neg(p, mv, out)

\* Lines 154-156: the rotational correction.
RotationCorrection(p, mv) ==
  IF rotating_frame
  THEN [mv EXCEPT !.Omega =
          Add(mv.Omega, Mul(Two, min(Zero, Sub(p.StrainMag_i, mv.Omega))))]
  ELSE mv

\* A wall-distance test that only rejects a zero distance.
AwayFromWall_Positive(p) == Gt(p.dist_i, Zero)

\* Line 158: the wall-distance test.
AwayFromWall(p) == Gt(p.dist_i, Fl(1, -10))

\* Line 164: nu = Laminar_Viscosity_i / Density_i
KinematicViscosity(p) == Div(p.V_LaminarViscosity, p.V_Density)

\* Lines 161-163: S and dist_i_2
Set_S_dist(p, mv) ==
  [mv EXCEPT !.S = mv.Omega, !.dist_i_2 = Mul(p.dist_i, p.dist_i)]

\* Lines 165-173: inv_k2_d2, Ji and d_Ji
Set_Ji(p, mv, nu) ==
  [mv EXCEPT
     !.inv_k2_d2 = Div(One, Mul(mv.k2, mv.dist_i_2)),
     !.Ji = Add(Div(p.ScalarVar_i, nu),
                Mul(mv.cr1, Div(p.roughness_i, Add(p.dist_i, EPS)))),
     !.d_Ji = Div(One, nu)]

\* Lines 175-176: the locals Ji_2 and Ji_3
Ji_2(mv) == Mul(mv.Ji, mv.Ji)

Ji_3(mv) == Mul(Ji_2(mv), mv.Ji)

\* Lines 178-179: fv1 and d_fv1
Set_fv1(mv, nu) ==
  [mv EXCEPT
     !.fv1 = Div(Ji_3(mv), Add(Ji_3(mv), mv.cv1_3)),
     !.d_fv1 = Div(Mul(Mul(Fl(3, 0), Ji_2(mv)), mv.cv1_3),
                   Mul(nu, pow2(Add(Ji_3(mv), mv.cv1_3))))]

\* Lines 182-183: fv2 and d_fv2
Set_fv2(p, mv, nu) ==
  [mv EXCEPT
     !.fv2 = Sub(One, Div(p.ScalarVar_i,
                          Add(nu, Mul(p.ScalarVar_i, mv.fv1)))),
     !.d_fv2 = Div(Neg(Sub(Div(One, nu), Mul(Ji_2(mv), mv.d_fv1))),
                   pow2(Add(One, Mul(mv.Ji, mv.fv1))))]

\* Line 191: inv_Shat
Set_inv_Shat(mv) == [mv EXCEPT !.inv_Shat = Div(One, mv.Shat)]

\* Line 196: g
Set_g(mv) ==
  [mv EXCEPT !.g = Add(mv.r, Mul(mv.cw2, Sub(pow6(mv.r), mv.r)))]

\* Line 197: g_6
Set_g_6(mv) == [mv EXCEPT !.g_6 = pow6(mv.g)]

\* Line 198: glim
Set_glim(mv) ==
  [mv EXCEPT !.glim =
     powSixth(Div(Add(One, mv.cw3_6), Add(mv.g_6, mv.cw3_6)))]

\* Lines 199-201: fw and d_g
Set_fw_d_g(mv) ==
  [mv EXCEPT
     !.fw = Mul(mv.g, mv.glim),
     !.d_g = Mul(mv.d_r, Add(One, Mul(mv.cw2,
                Sub(Mul(Fl(6, 0), pow5(mv.r)), One))))]

\* Line 202: the assignment to model_var.dfw
Set_dfw(mv) ==
  [mv EXCEPT !.dfw =
     Mul(Mul(mv.d_g, mv.glim),
         Sub(One, Div(mv.g_6, Add(mv.g_6, mv.cw3_6))))]

\* Lines 204-206: the squared norm of the gradient of the scalar.
RECURSIVE Norm2Loop(_, _, _)
Norm2Loop(grad, iDim, acc) ==
  IF iDim > Len(grad) THEN acc
  ELSE Norm2Loop(grad, iDim + 1, Add(acc, Mul(grad[iDim], grad[iDim])))

Set_norm2_Grad(p, mv) ==
  [mv EXCEPT !.norm2_Grad = Norm2Loop(p.ScalarVar_Grad_i, 1, Zero)]

\* Lines 150-156: model_var when the wall-distance test is reached; mem is
\* the content of the memory model_var is placed in.
BeforeWallTest(s, p, mem) == RotationCorrection(p, ApplyOmega(s, p, mem))

\* Lines 161-183
Lines161To183(p, mv, nu) ==
  Set_fv2(p, Set_fv1(Set_Ji(p, Set_S_dist(p, mv), nu), nu), nu)

\* Lines 186-191
Lines186To191(s, p, mv, nu) ==
  Set_inv_Shat(ApplyModVort(s, p, Applyft2(s, mv), nu))

\* Lines 194-206
Lines194To206(s, p, mv) ==
  Set_norm2_Grad(p,
    Set_dfw(Set_fw_d_g(Set_glim(Set_g_6(Set_g(Applyr(s, p, mv)))))))

----------------------------------------------------------------------------
(* The accesses of one call to the members of model_var                    *)

\* One statement: the members it reads, then the members it assigns.
St(rd, wr) == [rd |-> rd, wr |-> wr]

Omega_Accesses == <<St({}, {"Omega"})>>

Rotation_Accesses ==
  IF rotating_frame THEN <<St({"Omega"}, {"Omega"})>> ELSE <<>>

Fixed_Accesses ==
  <<St({"Omega"}, {"S"}), St({}, {"dist_i_2"}),
    St({"k2", "dist_i_2"}, {"inv_k2_d2"}), St({"cr1"}, {"Ji"}),
    St({}, {"d_Ji"}), St({"Ji"}, {}), St({"cv1_3"}, {"fv1"}),
    St({"cv1_3"}, {"d_fv1"}), St({"fv1"}, {"fv2"}),
    St({"d_fv1", "Ji", "fv1"}, {"d_fv2"})>>

ft2_Accesses(s) ==
  IF s.ft2_class = "ft2_Bsl" THEN <<St({}, {"ft2"}), St({}, {"d_ft2"})>>
  ELSE <<St({"Ji"}, {}), St({"ct3", "ct4"}, {"ft2"}),
         St({"ct4", "Ji", "ft2", "d_Ji"}, {"d_ft2"})>>

ModVort_Bsl_Accesses ==
  <<St({"fv2", "inv_k2_d2"}, {}), St({"S"}, {"Shat"}), St({"Shat"}, {"Shat"}),
    St({"fv2", "d_fv2", "inv_k2_d2"}, {}), St({"Shat"}, {"d_Shat"})>>

\* mv is model_var after the step: the conditional expression of line 349
\* reads S, Ji and d_fv1 only when Shat is above the floor.
ModVort_Edw_Accesses(mv) ==
  <<St({"S", "Ji", "fv1"}, {"Shat"}), St({"Shat"}, {"Shat"}),
    St({"Shat"} \cup (IF Le(mv.Shat, Fl(1, -10)) THEN {}
                      ELSE {"S", "Ji", "d_fv1"}), {"d_Shat"})>>

ModVort_Accesses(s, p, mv) ==
  IF s.ModVort_class = "ModVort_Bsl" THEN ModVort_Bsl_Accesses
  ELSE IF s.ModVort_class = "ModVort_Edw" THEN ModVort_Edw_Accesses(mv)
  ELSE IF Gt(p.ScalarVar_i, Zero) THEN ModVort_Bsl_Accesses ELSE <<>>

\* r_Edw assigns r twice, so whether r_Bsl's test r == 10.0 held is read
\* from the clamp itself.
r_Accesses(s, p, mv) ==
  IF s.r_class = "r_Bsl"
  THEN <<St({"inv_Shat", "inv_k2_d2"}, {"r"}),
         St({"Shat", "d_Shat", "inv_Shat", "inv_k2_d2"}, {"d_r"}),
         St({"r"}, IF EqF(mv.r, Fl(10, 0)) THEN {"d_r"} ELSE {})>>
  ELSE <<St({"inv_Shat", "inv_k2_d2"}, {"r"}), St({"r"}, {"r"}),
         St({"Shat", "d_Shat", "inv_Shat", "inv_k2_d2"}, {"d_r"}),
         St({"r", "d_r"}, {"d_r"})>>

Damping_Accesses ==
  <<St({"r", "cw2"}, {"g"}), St({"g"}, {"g_6"}),
    St({"cw3_6", "g_6"}, {"glim"}), St({"g", "glim"}, {"fw"}),
    St({"d_r", "cw2", "r"}, {"d_g"}),
    St({"d_g", "glim", "g_6", "cw3_6"}, {"dfw"})>>

Norm2_Accesses ==
  <<St({}, {"norm2_Grad"}), St({"norm2_Grad"}, {"norm2_Grad"})>>

SourceTerms_Bsl_Accesses ==
  <<St({"cb1", "ft2", "Shat"}, {}),
    St({"cb1", "Shat", "d_ft2", "ft2", "d_Shat"}, {}),
    St({"cw1", "fw", "cb1", "ft2", "k2", "dist_i_2"}, {}),
    St({"cw1", "d_fw", "cb1", "k2", "d_ft2", "dist_i_2", "fw", "ft2"}, {}),
    St({"cb2_sigma", "norm2_Grad"}, {})>>

SourceTerms_Neg_Accesses ==
  <<St({"cb1", "ct3", "S"}, {}), St({"cb1", "ct3", "S"}, {}),
    St({"cw1", "dist_i_2"}, {}), St({"cw1", "dist_i_2"}, {}),
    St({"cb2_sigma", "norm2_Grad"}, {})>>

SourceTerms_Accesses(s, p) ==
  IF s.SourceTerms_class = "SourceTerms_Bsl" \/ Gt(p.ScalarVar_i, Zero)
  THEN SourceTerms_Bsl_Accesses
  ELSE SourceTerms_Neg_Accesses

\* The statements of one call before SourceTerms_class::get, in execution
\* order; mv is the final model_var.
AccessesBeforeSourceTerms(s, p, mv) ==
  Omega_Accesses \o Rotation_Accesses \o
  (IF AwayFromWall(p)
   THEN Fixed_Accesses \o ft2_Accesses(s) \o ModVort_Accesses(s, p, mv) \o
        <<St({"Shat"}, {"inv_Shat"})>> \o r_Accesses(s, p, mv) \o
        Damping_Accesses \o Norm2_Accesses
   ELSE <<>>)

\* All statements of one call.
Accesses(s, p, mv) ==
  AccessesBeforeSourceTerms(s, p, mv) \o
  (IF AwayFromWall(p) THEN SourceTerms_Accesses(s, p) ELSE <<>>)

\* The members assigned by a sequence of statements.
Written(acc) == UNION {acc[k].wr : k \in 1..Len(acc)}

\* The members read by some statement that no earlier statement assigned.
ReadBeforeWritten(acc) ==
  {f \in UNION {acc[k].rd : k \in 1..Len(acc)} :
     \E k \in 1..Len(acc) :
       f \in acc[k].rd /\ \A j \in 1..(k - 1) : f \notin acc[j].wr}

----------------------------------------------------------------------------
(* The whole body of ComputeResidual                                       *)

\* Lines 142-147: the reset of the source terms and of Jacobian_i[0].
Reset ==
  [Production |-> Zero, Destruction |-> Zero, CrossProduction |-> Zero,
   Jacobian |-> Zero, hist |-> <<>>]

\* A Residual that is not scaled by Volume.
ResidualAtLine215_Unscaled(p, out) ==
  Add(Add(Sub(out.Production, out.Destruction), out.CrossProduction), Zero)

\* Lines 214-215: Residual (AddSourceTerm is still the 0.0 of line 146)
ResidualAtLine215(p, out) ==
  Mul(Add(Add(Sub(out.Production, out.Destruction), out.CrossProduction),
          Zero), p.Volume)

\* Line 218: Jacobian_i[0]
JacobianAtLine218(p, out) == Mul(out.Jacobian, p.Volume)

\* What the call leaves behind: the members it assigned (lines 137-147 and
\* 209-218), the final model_var, the Jacobian log, the members of model_var
\* assigned before SourceTerms_class::get, and those read before assigned.
Finish(s, p, mv, out) ==
  [roughwall |-> Gt(p.roughness_i, Zero),
   Density_i |-> p.V_Density,
   Laminar_Viscosity_i |-> p.V_LaminarViscosity,
   Residual |-> IF AwayFromWall(p) THEN ResidualAtLine215(p, out) ELSE Zero,
   Production |-> out.Production,
   Destruction |-> out.Destruction,
   CrossProduction |-> out.CrossProduction,
   AddSourceTerm |-> Zero,
   Jacobian_i |-> IF AwayFromWall(p) THEN JacobianAtLine218(p, out)
                  ELSE out.Jacobian,
   model_var |-> mv,
   hist |-> out.hist,
   written |-> Written(AccessesBeforeSourceTerms(s, p, mv)),
   rbw |-> ReadBeforeWritten(Accesses(s, p, mv))]

\* The calls offered to an evaluator: its strategies s, the point state p
\* and the index i of the stack image model_var is placed in.  The body of
\* ComputeResidual is evaluated for each of them, program point by program
\* point; each table holds model_var at the line it is named after.
AtLine156 ==
  [s \in Strategies, p \in Points, i \in 1..NumStack |->
     BeforeWallTest(s, p, StackImage(i))]

AtLine183 ==
  [s \in Strategies, p \in Points, i \in 1..NumStack |->
     IF AwayFromWall(p)
     THEN Lines161To183(p, AtLine156[s, p, i], KinematicViscosity(p))
     ELSE AtLine156[s, p, i]]

AtLine191 ==
  [s \in Strategies, p \in Points, i \in 1..NumStack |->
     IF AwayFromWall(p)
     THEN Lines186To191(s, p, AtLine183[s, p, i], KinematicViscosity(p))
     ELSE AtLine183[s, p, i]]

AtLine206 ==
  [s \in Strategies, p \in Points, i \in 1..NumStack |->
     IF AwayFromWall(p) THEN Lines194To206(s, p, AtLine191[s, p, i])
     ELSE AtLine191[s, p, i]]

\* Lines 209-218: what each call leaves behind.
Evaluated ==
  [s \in Strategies, p \in Points, i \in 1..NumStack |->
     Finish(s, p, AtLine206[s, p, i],
            IF AwayFromWall(p)
            THEN ApplySourceTerms(s, p, AtLine206[s, p, i], Reset)
            ELSE Reset)]

----------------------------------------------------------------------------
(* The evaluator object                                                    *)

VARIABLES
  strat,                \* the template arguments of this evaluator
  Production, Destruction, CrossProduction, AddSourceTerm,
  Residual, Jacobian_i, \* Jacobian_i is the cell the pointer designates
  intermittency, roughwall, Density_i, Laminar_Viscosity_i,
  called,               \* ComputeResidual has run at least once
  pt,                   \* the point state the last call read
  stack,                \* the stack image model_var was placed in
  last                  \* what the last call left behind (Finish)

vars ==
  <<strat, Production, Destruction, CrossProduction, AddSourceTerm, Residual,
    Jacobian_i, intermittency, roughwall, Density_i, Laminar_Viscosity_i,
    called, pt, stack, last>>

\* Values the callers pass to the setters.
SetterValues == {Fl(7, 0)}

\* What the members the constructor leaves unset may hold.
Garbage == {Fl(11, 0), Fl(22, 0)}

\* The constructor initialises no member but roughwall (and rotating_frame,
\* Gamma_BC): the others start with what the memory holds.
Init ==
  /\ strat \in Strategies
  /\ \E g \in Garbage :
       /\ Production = g /\ Destruction = g /\ CrossProduction = g
       /\ AddSourceTerm = g /\ Residual = g /\ Jacobian_i = g
       /\ intermittency = g /\ Density_i = g /\ Laminar_Viscosity_i = g
  /\ roughwall = FALSE
  /\ called = FALSE
  /\ pt = CHOOSE p \in Points : TRUE
  /\ stack = 1
  /\ last = Finish(strat, pt, StackImage(1), Reset)

ComputeResidual ==
  \E p \in Points, i \in 1..NumStack :
    /\ last' = Evaluated[strat, p, i]
    /\ roughwall' = last'.roughwall
    /\ Density_i' = last'.Density_i
    /\ Laminar_Viscosity_i' = last'.Laminar_Viscosity_i
    /\ Residual' = last'.Residual
    /\ Production' = last'.Production
    /\ Destruction' = last'.Destruction
    /\ CrossProduction' = last'.CrossProduction
    /\ AddSourceTerm' = last'.AddSourceTerm
    /\ Jacobian_i' = last'.Jacobian_i
    /\ called' = TRUE
    /\ pt' = p
    /\ stack' = i
    /\ UNCHANGED <<strat, intermittency>>

SetIntermittency ==
  \E v \in SetterValues :
    /\ intermittency' = v
    /\ UNCHANGED <<strat, Production, Destruction, CrossProduction,
                   AddSourceTerm, Residual, Jacobian_i, roughwall, Density_i,
                   Laminar_Viscosity_i, called, pt, stack, last>>

SetProduction ==
  \E v \in SetterValues :
    /\ Production' = v
    /\ UNCHANGED <<strat, Destruction, CrossProduction, AddSourceTerm,
                   Residual, Jacobian_i, intermittency, roughwall, Density_i,
                   Laminar_Viscosity_i, called, pt, stack, last>>

SetDestruction ==
  \E v \in SetterValues :
    /\ Destruction' = v
    /\ UNCHANGED <<strat, Production, CrossProduction, AddSourceTerm,
                   Residual, Jacobian_i, intermittency, roughwall, Density_i,
                   Laminar_Viscosity_i, called, pt, stack, last>>

SetCrossProduction ==
  \E v \in SetterValues :
    /\ CrossProduction' = v
    /\ UNCHANGED <<strat, Production, Destruction, AddSourceTerm,
                   Residual, Jacobian_i, intermittency, roughwall, Density_i,
                   Laminar_Viscosity_i, called, pt, stack, last>>

Next ==
  \/ ComputeResidual
  \/ SetIntermittency
  \/ SetProduction
  \/ SetDestruction
  \/ SetCrossProduction

Spec == Init /\ [][Next]_vars

----------------------------------------------------------------------------
(* Properties                                                              *)

\* model_var and the point state of the last call.
LastVar == last.model_var

LastNue == pt.ScalarVar_i

InteriorCall == called /\ AwayFromWall(pt)

NegativeStack ==
  /\ strat.ModVort_class = "ModVort_Neg"
  /\ strat.SourceTerms_class = "SourceTerms_Neg"

BaselineStack(s) ==
  [s EXCEPT !.ModVort_class = "ModVort_Bsl",
            !.SourceTerms_class = "SourceTerms_Bsl"]

\* The last call ran ModVort_Bsl::get, directly or through ModVort_Neg.
RanModVort_Bsl ==
  /\ InteriorCall
  /\ \/ strat.ModVort_class = "ModVort_Bsl"
     \/ strat.ModVort_class = "ModVort_Neg" /\ Gt(LastNue, Zero)

\* S + Sbar, the sum line 328 assigns before the floor of line 329.
SPlusSbar == Add(LastVar.S, ModVort_Bsl_Sbar(LastNue, LastVar))

\* nue * inv_Shat * inv_k2_d2, the argument of the clamp of lines 391, 408.
RUnclamped == Mul(Mul(LastNue, LastVar.inv_Shat), LastVar.inv_k2_d2)

\* The derivative of lines 392 and 411, before line 393 or 412 touch it.
DrUnforced ==
  Mul(Mul(Mul(Sub(LastVar.Shat, Mul(LastNue, LastVar.d_Shat)),
              LastVar.inv_Shat), LastVar.inv_Shat), LastVar.inv_k2_d2)

\* C1: a ComputeResidual call with dist_i <= 1e-10 ends with Residual = 0,
\* Jacobian_i[0] = 0 and Production, Destruction, CrossProduction all 0,
\* for every strategy combination and point state, whatever calls and
\* setters ran before it.  (Residual and Jacobian_i have no setter, so they
\* still hold what the call left.)
WallCallLeavesZero ==
  (called /\ Le(pt.dist_i, Fl(1, -10))) =>
    /\ last.Residual = Zero /\ last.Jacobian_i = Zero
    /\ last.Production = Zero /\ last.Destruction = Zero
    /\ last.CrossProduction = Zero
    /\ Residual = Zero /\ Jacobian_i = Zero

\* C1 witness: a wall call with a non-zero turbulence scalar, made on the
\* second stack image after a setter ran.
WallCallSeen ==
  /\ called /\ EqF(pt.dist_i, Fl(1, -10)) /\ ~IsZero(LastNue)
  /\ stack = NumStack /\ intermittency \in SetterValues
  /\ Residual = Zero /\ Jacobian_i = Zero

\* C2 (as stated): the (Residual, Jacobian) a call leaves is a function of
\* the point state alone: every call of this evaluator on the point state
\* of the last call, whatever the stack held where model_var was placed,
\* yields the Residual and Jacobian_i the last call left.
SamePointSameResult ==
  called =>
    \A i \in 1..NumStack :
      /\ Evaluated[strat, pt, i].Residual = Residual
      /\ Evaluated[strat, pt, i].Jacobian_i = Jacobian_i

\* C3: with the Negative strategies and nue < 0 away from the wall,
\* Production = cb1 * (1 - ct3) * S * nue, and the value is the same when
\* ft2, fv1, fv2 and Shat are replaced, and under either ft2 strategy.
NegativeProductionLinear ==
  (InteriorCall /\ NegativeStack /\ Lt(LastNue, Zero)) =>
    /\ last.Production =
         Mul(Mul(Mul(LastVar.cb1, Sub(One, LastVar.ct3)), LastVar.S), LastNue)
    /\ \A v \in {Zero, Fl(42, 0), Fl(-5, -1)} :
         ApplySourceTerms(strat, pt,
                          [LastVar EXCEPT !.ft2 = v, !.fv1 = v, !.fv2 = v,
                                          !.Shat = v],
                          Reset).Production = last.Production
    /\ \A f \in {"ft2_Bsl", "ft2_nonzero"} :
         Evaluated[[strat EXCEPT !.ft2_class = f], pt, stack].Production =
           last.Production

\* C3 witness: a call of the Negative stack with nue < 0 whose Production
\* is not zero and whose Shat differs from S.
NegativeProductionSeen ==
  /\ InteriorCall /\ NegativeStack /\ Lt(LastNue, Zero)
  /\ ~IsZero(last.Production) /\ LastVar.Shat # LastVar.S

\* C4: with nue > 0 the Negative strategies leave the Shat, d_Shat,
\* Production, Destruction, CrossProduction, Residual and Jacobian the
\* Baseline strategies leave on the same point state, and away from the
\* wall ModVort_Neg has written Shat and d_Shat before SourceTerms_Neg
\* delegates to the Baseline source terms.
NegativeDelegatesToBaseline ==
  (called /\ NegativeStack /\ Gt(LastNue, Zero)) =>
    /\ LastVar.Shat = Evaluated[BaselineStack(strat), pt, stack].model_var.Shat
    /\ LastVar.d_Shat =
         Evaluated[BaselineStack(strat), pt, stack].model_var.d_Shat
    /\ last.Production = Evaluated[BaselineStack(strat), pt, stack].Production
    /\ last.Destruction =
         Evaluated[BaselineStack(strat), pt, stack].Destruction
    /\ last.CrossProduction =
         Evaluated[BaselineStack(strat), pt, stack].CrossProduction
    /\ Residual = Evaluated[BaselineStack(strat), pt, stack].Residual
    /\ Jacobian_i = Evaluated[BaselineStack(strat), pt, stack].Jacobian_i
    /\ AwayFromWall(pt) => {"Shat", "d_Shat"} \subseteq last.written

\* C4 witness: a call of the Negative stack with nue > 0 away from the wall
\* that produced a non-zero Residual from a Shat above the floor.
NegativeDelegationSeen ==
  /\ InteriorCall /\ NegativeStack /\ Gt(LastNue, Zero)
  /\ ~IsZero(Residual) /\ Gt(LastVar.Shat, Fl(1, -10))
  /\ ~IsZero(LastVar.d_Shat)

CrossProductionKeepsJacobian ==
  InteriorCall =>
    /\ Len(last.hist) = 3
    /\ last.hist[3] = last.hist[2]
    /\ last.CrossProduction = Mul(LastVar.cb2_sigma, LastVar.norm2_Grad)
    /\ Jacobian_i = Mul(last.hist[2], pt.Volume)

\* C6 witness: a call through the nue <= 0 branch of SourceTerms_Neg with a
\* non-zero CrossProduction and a non-zero accumulated Jacobian.
CrossProductionSeen ==
  /\ InteriorCall /\ strat.SourceTerms_class = "SourceTerms_Neg"
  /\ Lt(LastNue, Zero)
  /\ ~IsZero(last.CrossProduction) /\ ~IsZero(last.hist[2])

\* C7: Residual = (Production - Destruction + CrossProduction +
\* AddSourceTerm) * Volume and Jacobian = (accumulated derivative) * Volume,
\* where the factors are the same for every Volume, so doubling Volume
\* doubles both results.
LinearInVolume ==
  InteriorCall =>
    /\ \A v \in {One, Two} :
         /\ Evaluated[strat, [pt EXCEPT !.Volume = v], stack].Production =
              last.Production
         /\ Evaluated[strat, [pt EXCEPT !.Volume = v], stack].Destruction =
              last.Destruction
         /\ Evaluated[strat, [pt EXCEPT !.Volume = v], stack].CrossProduction =
              last.CrossProduction
         /\ Evaluated[strat, [pt EXCEPT !.Volume = v], stack].hist = last.hist
         /\ Evaluated[strat, [pt EXCEPT !.Volume = v], stack].Residual =
              Mul(Add(Add(Sub(last.Production, last.Destruction),
                          last.CrossProduction), last.AddSourceTerm), v)
         /\ Evaluated[strat, [pt EXCEPT !.Volume = v], stack].Jacobian_i =
              Mul(last.hist[3], v)
    /\ Evaluated[strat, [pt EXCEPT !.Volume = Two], stack].Residual =
         Mul(Evaluated[strat, [pt EXCEPT !.Volume = One], stack].Residual, Two)
    /\ Evaluated[strat, [pt EXCEPT !.Volume = Two], stack].Jacobian_i =
         Mul(Evaluated[strat, [pt EXCEPT !.Volume = One], stack].Jacobian_i,
             Two)

\* C7 witness: a call with Volume 2 whose Residual and Jacobian are not
\* zero and differ from those at Volume 1.
VolumeScalingSeen ==
  /\ InteriorCall /\ pt.Volume = Two
  /\ ~IsZero(Residual) /\ ~IsZero(Jacobian_i)
  /\ Residual # Evaluated[strat, [pt EXCEPT !.Volume = One], stack].Residual

\* C8 (as stated): in every call each member of model_var is written in
\* that call before any statement of the pipeline or of a strategy reads
\* it: no member is read before it is written.
NoReadBeforeWrite == called => last.rbw = {}

\* C9 (as stated): in ModVort_Bsl Shat = max(S + Sbar, 1e-10) >= 1e-10, and
\* d_Shat is 0 exactly when S + Sbar < 1e-10, otherwise
\* (fv2 + nue * d_fv2) * inv_k2_d2, also when S + Sbar equals 1e-10.
ShatFloorStrict ==
  RanModVort_Bsl =>
    /\ LastVar.Shat = max(SPlusSbar, Fl(1, -10))
    /\ Le(Fl(1, -10), LastVar.Shat)
    /\ LastVar.d_Shat =
         IF Lt(SPlusSbar, Fl(1, -10)) THEN Zero
         ELSE Mul(Add(LastVar.fv2, Mul(LastNue, LastVar.d_fv2)),
                  LastVar.inv_k2_d2)

\* C9 (amended): in ModVort_Bsl Shat = max(S + Sbar, 1e-10) >= 1e-10, and
\* d_Shat is 0 exactly when S + Sbar <= 1e-10, that is when Shat is at the
\* floor whether or not the floor changed it; otherwise d_Shat =
\* (fv2 + nue * d_fv2) * inv_k2_d2.
ShatFloorInclusive ==
  RanModVort_Bsl =>
    /\ LastVar.Shat = max(SPlusSbar, Fl(1, -10))
    /\ Le(Fl(1, -10), LastVar.Shat)
    /\ LastVar.d_Shat =
         IF Le(SPlusSbar, Fl(1, -10)) THEN Zero
         ELSE Mul(Add(LastVar.fv2, Mul(LastNue, LastVar.d_fv2)),
                  LastVar.inv_k2_d2)

\* C9 witness: S + Sbar equals 1e-10, the floor changes nothing, d_Shat is 0
\* and (fv2 + nue * d_fv2) * inv_k2_d2 is not.
ShatAtFloorSeen ==
  /\ RanModVort_Bsl
  /\ EqF(SPlusSbar, Fl(1, -10))
  /\ LastVar.d_Shat = Zero
  /\ ~IsZero(ModVort_Bsl_dSbar(LastNue, LastVar))

\* C10 (as stated): r_Edw forces the pre-transform d_r to 0 when the
\* pre-transform r hit the clamp, so d_r = 0 whenever
\* nue * inv_Shat * inv_k2_d2 >= 10.0.
EdwardsZeroAtClamp ==
  (InteriorCall /\ strat.r_class = "r_Edw" /\ Le(Fl(10, 0), RUnclamped)) =>
    LastVar.d_r = Zero

\* C10 (amended): r_Edw clamps r as r_Bsl does and computes the
\* pre-transform d_r by the same formula, but does not force it to 0 at the
\* clamp: r = tanh(min(nue * inv_Shat * inv_k2_d2, 10.0)) / tanh(1.0) and
\* d_r = (1 - tanh(r)^2) * d_r / tanh(1.0) with the transformed r and the
\* unforced pre-transform d_r, whether or not the clamp was hit.
EdwardsKeepsDerivative ==
  (InteriorCall /\ strat.r_class = "r_Edw") =>
    /\ Evaluated[[strat EXCEPT !.r_class = "r_Bsl"], pt, stack].model_var.r =
         min(RUnclamped, Fl(10, 0))
    /\ LastVar.r = Div(tanh(min(RUnclamped, Fl(10, 0))), tanh(One))
    /\ LastVar.d_r =
         Div(Mul(Sub(One, pow2(tanh(LastVar.r))), DrUnforced), tanh(One))

\* C10 witness: an r_Edw call at the clamp that leaves a non-zero d_r.
EdwardsClampSeen ==
  /\ InteriorCall /\ strat.r_class = "r_Edw"
  /\ Le(Fl(10, 0), RUnclamped)
  /\ ~IsZero(DrUnforced) /\ ~IsZero(LastVar.d_r)

=============================================================================
